---- MODULE Spec2Model ----
(***************************************************************************)
(* Model of the LRU/TTL cache (class LRUCache) and of its disk mirror      *)
(* (class PersistentCache) of src/src/optimizer/caching/lru-cache.ts.      *)
(*                                                                         *)
(* A JavaScript Map is modelled as a sequence of entries in insertion      *)
(* order; Date.now() is the variable now.                                  *)
(***************************************************************************)
EXTENDS Integers, Sequences, FiniteSets, TLC

(***************************************************************************)
(* Bounds of the model                                                     *)
(***************************************************************************)
MaxCap == 3
MaxTime == 200
MaxOps == 4
MaxWrites == 3
MaxDiskCalls == 4

(***************************************************************************)
(* Program constants                                                       *)
(***************************************************************************)
BATCH_DELAY_MS == 100

Keys == {"a", "b", "c"}
Values == {"v1", "v2"}
TickMs == BATCH_DELAY_MS
TTLs == {TickMs, 2 * TickMs}

Undefined == "undefined"
None == "none"

VARIABLES
    config,            \* LRUCache.config
    cache,             \* LRUCache.cache: Map<string, LRUCacheEntry>
    stats,             \* LRUCache.stats
    totalAccessCount,  \* LRUCache.totalAccessCount
    now,               \* Date.now()
    ret,               \* the last call and the value it returned
    calls,             \* number of calls made so far
    written,           \* history: per key, the last set not undone since
    recency,           \* history: resident keys by last touch, oldest first
    writeQueue,        \* PersistentCache.writeQueue
    isProcessing,      \* PersistentCache.isProcessing
    pendingWrites,     \* PersistentCache.pendingWrites: Map<string, Entry>
    batchTimer,        \* PersistentCache.batchTimer and whether it is armed
    file,              \* the content of the snapshot file at filePath
    tmp,               \* the content of the temporary file filePath + '.tmp'
    fsLog,             \* history: the two files after each file-system call
                       \* of the writes of the last step
    running,           \* processQueue suspended at its await: the operation
    settled,           \* history: outcome of the i-th issued operation
    nextId,            \* history: number given to the next issued operation
    lastStarted,       \* history: number of the operation last begun
    diskFault,         \* the file system currently refuses writes
    crashed,           \* an exception nobody caught has ended the process
    flushPc,           \* a caller inside PersistentCache.flush()
    saved,             \* history: per key, the last save not superseded since
    owed,              \* history: what that flush() has to bring to disk
    savePc,            \* a caller inside LRUCache.saveToDisk()
    synced,            \* history: per key, the set a saveToDisk call covers
    instance,          \* history: how many times the cache was constructed anew
    optimizer          \* TokenOptimizer and its CacheOptimizer, if constructed

cvars == <<config, cache, stats, totalAccessCount, now, ret, calls,
           written, recency, optimizer>>
pvars == <<writeQueue, isProcessing, pendingWrites, batchTimer, file, tmp,
           fsLog, running, settled, nextId, lastStarted, diskFault,
           crashed>>
fvars == <<flushPc, saved, owed, savePc, synced, instance>>
vars == <<cvars, pvars, fvars>>

(***************************************************************************)
(* Map<string, Entry> as a sequence in insertion order                     *)
(***************************************************************************)
MapKeys(m) == {m[i].key : i \in 1..Len(m)}

MapHas(m, k) == k \in MapKeys(m)

MapIndex(m, k) == CHOOSE i \in 1..Len(m) : m[i].key = k

MapGet(m, k) == m[MapIndex(m, k)]

MapDelete(m, k) == SelectSeq(m, LAMBDA e : e.key # k)

MapSet_keepsOld(m, k, e) ==
    IF MapHas(m, k) THEN m ELSE Append(m, e)

\* Map.prototype.set: an existing key keeps its position, a new key is appended
MapSet(m, k, e) ==
    IF MapHas(m, k) THEN [m EXCEPT ![MapIndex(m, k)] = e] ELSE Append(m, e)

KeySeq(m) == [i \in 1..Len(m) |-> m[i].key]

(***************************************************************************)
(* LRUCache                                                                *)
(***************************************************************************)
isExpired_lateByATick(entry, t) == t > entry.expiresAt + TickMs

isExpired(entry, t) == t > entry.expiresAt

needsEviction_offByOne(m, k) == Len(m) > config.maxSize /\ ~MapHas(m, k)

needsEviction_onOverwrite(m, k) == Len(m) >= config.maxSize

\* set(): the test that decides whether evictLRU() runs
needsEviction(m, k) == Len(m) >= config.maxSize /\ ~MapHas(m, k)

touchEntry_sliding(entry, t) ==
    [entry EXCEPT !.lastAccessed = t, !.accessCount = @ + 1,
                  !.expiresAt = t + config.ttl]

touchEntry_noCount(entry, t) == [entry EXCEPT !.lastAccessed = t]

\* get(): the access metadata of a hit
touchEntry(entry, t) ==
    [entry EXCEPT !.lastAccessed = t, !.accessCount = @ + 1]

moveToEnd_inPlace(m, k, entry) == MapSet(m, k, entry)

\* get(): delete and re-insert, which moves the key to the end of the Map
moveToEnd(m, k, entry) == MapSet(MapDelete(m, k), k, entry)

\* the hit rate and the average are kept as fractions <<numerator, denominator>>
Frac(n, d) == <<n, d>>
Zero == <<0, 1>>

\* the rate is taken over the requests before the current one
updateStats_beforeRequest(st, m, total) ==
    LET t == st.hits + st.misses - 1 IN
    [st EXCEPT !.hitRate = IF t > 0 THEN Frac(st.hits, t) ELSE Zero,
               !.averageAccessCount =
                   IF Len(m) > 0 THEN Frac(total, Len(m)) ELSE Zero]

updateStats(st, m, total) ==
    LET t == st.hits + st.misses IN
    [st EXCEPT !.hitRate = IF t > 0 THEN Frac(st.hits, t) ELSE Zero,
               !.averageAccessCount =
                   IF Len(m) > 0 THEN Frac(total, Len(m)) ELSE Zero]

NewEntry(k, v, t) ==
    [key |-> k, value |-> v, timestamp |-> t, lastAccessed |-> t,
     accessCount |-> 0, expiresAt |-> t + config.ttl]

InitStats(maxSize) ==
    [hits |-> 0, misses |-> 0, evictions |-> 0, expirations |-> 0,
     currentSize |-> 0, maxSize |-> maxSize, hitRate |-> Zero,
     averageAccessCount |-> Zero]

\* history entry of a key that no set currently accounts for
NoWrite == [value |-> Undefined, at |-> -1]

NoTimer == [due |-> -1, armed |-> FALSE]

\* no call of saveToDisk is in progress
Idle == [at |-> "idle", op |-> 0, n |-> 0]

\* history entries: no save to account for; a save undone by a delete
NoEntry == [key |-> None, value |-> Undefined, timestamp |-> -1,
            lastAccessed |-> -1, accessCount |-> 0, expiresAt |-> -1]
Tombstone == [NoEntry EXCEPT !.value = "deleted"]
NoOp == [id |-> 0, type |-> "none", key |-> None, entry |-> None,
         entries |-> <<>>]
NotRunning == [op |-> NoOp, threw |-> FALSE]

\* no TokenOptimizer was constructed: the cache is used by itself
NoOptimizer == [enabled |-> FALSE]

RemoveKey(s, k) == SelectSeq(s, LAMBDA x : x # k)

(***************************************************************************)
(* PersistentCache.  Its methods are operators on the record p of the      *)
(* object's fields and of the file, so that one call of the cache can      *)
(* issue several of them.                                                  *)
(***************************************************************************)
NoFile == [json |-> "ENOENT", items |-> <<>>]

\* the array is written last element first
JSONStringify_reversed(entries) ==
    [json |-> "array",
     items |-> [i \in 1..Len(entries) |-> entries[Len(entries) + 1 - i]]]

\* JSON.stringify(entries, null, 2): the text of an array holding one object
\* per entry; the fields of an entry are strings and finite numbers, which
\* JSON.parse gives back as they were
JSONStringify(entries) ==
    [json |-> "array", items |-> [i \in 1..Len(entries) |-> entries[i]]]

PC ==
    [writeQueue |-> writeQueue, isProcessing |-> isProcessing,
     pendingWrites |-> pendingWrites, batchTimer |-> batchTimer,
     file |-> file, tmp |-> tmp, log |-> <<>>, running |-> running,
     settled |-> settled, nextId |-> nextId, lastStarted |-> lastStarted,
     fault |-> diskFault, clock |-> now, threw |-> FALSE,
     crashed |-> crashed]

SetPC(p) ==
    /\ writeQueue' = p.writeQueue
    /\ isProcessing' = p.isProcessing
    /\ pendingWrites' = p.pendingWrites
    /\ batchTimer' = p.batchTimer
    /\ file' = p.file
    /\ tmp' = p.tmp
    /\ fsLog' = p.log
    /\ running' = p.running
    /\ settled' = p.settled
    /\ nextId' = p.nextId
    /\ lastStarted' = p.lastStarted
    /\ crashed' = p.crashed

\* a fresh PersistentCache object on the file f
NewPC(f, fault, t) ==
    [writeQueue |-> <<>>, isProcessing |-> FALSE, pendingWrites |-> <<>>,
     batchTimer |-> NoTimer, file |-> f, tmp |-> tmp, log |-> <<>>,
     running |-> NotRunning, settled |-> <<>>, nextId |-> 1,
     lastStarted |-> 0, fault |-> fault, clock |-> t, threw |-> FALSE,
     crashed |-> FALSE]

\* JSON.parse(content) of a file that holds an array
JSONParse(text) == text.items

\* a file whose text is valid JSON but not an array: an object wrapping items
NotAList(items) == [json |-> "object", items |-> items]

\* Array.isArray is not asked: whatever JSON.parse accepts is returned
loadAll_anyJson(p) ==
    IF p.file.json \in {"array", "object"} THEN JSONParse(p.file) ELSE <<>>

\* no file: []; JSON.parse throws on the text: caught, []; not an array: []
loadAll(p) ==
    IF p.file.json = "array" THEN JSONParse(p.file) ELSE <<>>

\* a file caught while fs.writeFileSync is writing it: truncated, with part
\* of the text, which JSON.parse rejects
Partial == [json |-> "partial", items |-> <<>>]

\* what saveAllSync leaves in fsLog after one file-system call
FsCall(name, p, old, new) ==
    [call |-> name, old |-> old, new |-> new, file |-> p.file, tmp |-> p.tmp]

\* the temporary file is written but never renamed over the target
saveAllSync_noRename(p, entries) ==
    IF p.fault THEN [p EXCEPT !.threw = TRUE]
    ELSE [p EXCEPT !.tmp = JSONStringify(entries)]

\* the content is written straight to the target path
saveAllSync_inPlace(p, entries) ==
    LET content == JSONStringify(entries)
        p1 == [p EXCEPT !.file = Partial]
        p2 == [p EXCEPT !.file = content]
    IN IF p.fault THEN [p EXCEPT !.threw = TRUE]
       ELSE [p2 EXCEPT !.log = p.log \o
                <<FsCall("writing", p1, p.file, content),
                  FsCall("writeFileSync", p2, p.file, content)>>]

saveAllSync(p, entries) ==
    LET content == JSONStringify(entries)
        \* fs.writeFileSync(tempPath, content): under way, then done
        p1 == [p EXCEPT !.tmp = Partial]
        p2 == [p EXCEPT !.tmp = content]
        \* fs.renameSync(tempPath, this.filePath)
        p3 == [p EXCEPT !.file = p2.tmp, !.tmp = NoFile]
    IN IF p.fault
       THEN [p EXCEPT !.threw = TRUE]
       ELSE [p3 EXCEPT !.log = p.log \o
                <<FsCall("writing", p1, p.file, content),
                  FsCall("writeFileSync", p2, p.file, content),
                  FsCall("renameSync", p3, p.file, content)>>]

RECURSIVE MapFromEntries(_)
\* new Map(entries.map(e => [e.key, e]))
MapFromEntries(entries) ==
    IF entries = <<>> THEN <<>>
    ELSE LET n == Len(entries)
             e == entries[n]
         IN MapSet(MapFromEntries(SubSeq(entries, 1, n - 1)), e.key, e)

\* the pending buffer alone is written, the snapshot on disk is not read
MergeInto_pendingOnly(entryMap, pending) == pending

RECURSIVE MergeInto(_, _)
\* for (const [key, entry] of pendingWrites) entryMap.set(key, entry)
MergeInto(entryMap, pending) ==
    IF pending = <<>> THEN entryMap
    ELSE MergeInto(MapSet(entryMap, Head(pending).key, Head(pending)),
                   Tail(pending))

flushPendingWrites(p) ==
    IF p.pendingWrites = <<>> THEN p
    ELSE LET entryMap == MergeInto(MapFromEntries(loadAll(p)), p.pendingWrites)
             q == saveAllSync(p, entryMap)
         IN IF q.threw THEN q
            ELSE [q EXCEPT !.pendingWrites = <<>>, !.batchTimer = NoTimer]

scheduleBatchWrite(p) ==
    [p EXCEPT !.batchTimer =
        [due |-> p.clock + BATCH_DELAY_MS, armed |-> TRUE]]

clearBatchTimer(p) == [p EXCEPT !.batchTimer = NoTimer]

\* the callback given to setTimeout: what flushPendingWrites throws is
\* caught by nobody and ends the process
timerCallback(p) ==
    LET q == flushPendingWrites([p EXCEPT !.batchTimer.armed = FALSE])
    IN IF q.threw THEN [q EXCEPT !.crashed = TRUE] ELSE q

\* the snapshot is written back whether or not it held the key
RewriteWithout_always(q, k) ==
    saveAllSync(q, SelectSeq(loadAll(q), LAMBDA e : e.key # k))

RewriteWithout(q, k) ==
    LET entries == loadAll(q)
        filtered == SelectSeq(entries, LAMBDA e : e.key # k)
    IN IF Len(filtered) # Len(entries) THEN saveAllSync(q, filtered) ELSE q

execDelete_keepsPending(p, op) == RewriteWithout(p, op.key)

\* executeOperation, case 'delete'
execDelete(p, op) ==
    RewriteWithout([p EXCEPT !.pendingWrites = MapDelete(@, op.key)], op.key)

\* the file is removed, the buffer and the timer are left as they are
execClear_keepsPending(p) == [p EXCEPT !.file = NoFile]

\* executeOperation, case 'clear': unlinkSync throws on a failing disk
execClear(p) ==
    LET q == [clearBatchTimer(p) EXCEPT !.pendingWrites = <<>>]
    IN IF q.file = NoFile THEN q
       ELSE IF q.fault THEN [q EXCEPT !.threw = TRUE]
       ELSE [q EXCEPT !.file = NoFile]

\* the file is replaced, the buffer and the timer are left as they are
execSaveAll_keepsPending(p, op) == saveAllSync(p, op.entries)

\* executeOperation, case 'saveAll'
execSaveAll(p, op) ==
    saveAllSync([clearBatchTimer(p) EXCEPT !.pendingWrites = <<>>],
                op.entries)

executeOperation(p, op) ==
    CASE op.type = "save" ->
            scheduleBatchWrite(
                [p EXCEPT !.pendingWrites = MapSet(@, op.key, op.entry)])
      [] op.type = "delete" -> execDelete(p, op)
      [] op.type = "clear" -> execClear(p)
      [] op.type = "saveAll" -> execSaveAll(p, op)

\* the body of the loop of processQueue up to its await
BeginNext(p) ==
    LET operation == Head(p.writeQueue)
        q == executeOperation([p EXCEPT !.writeQueue = Tail(@)], operation)
    IN [q EXCEPT !.running = [op |-> operation, threw |-> q.threw],
                 !.lastStarted = operation.id,
                 !.threw = FALSE]

processQueue_reentrant(p) ==
    IF p.writeQueue = <<>> THEN p
    ELSE BeginNext([p EXCEPT !.isProcessing = TRUE])

processQueue(p) ==
    IF p.isProcessing \/ p.writeQueue = <<>> THEN p
    ELSE BeginNext([p EXCEPT !.isProcessing = TRUE])

\* without the try/catch of the loop: a failed operation is rejected and
\* the loop is left where it stands
ResumeQueue_stopsOnReject(p) ==
    LET q == [p EXCEPT !.settled =
                  Append(@, IF p.running.threw THEN "rejected" ELSE "resolved"),
                       !.running = NotRunning]
    IN IF p.running.threw THEN q
       ELSE IF q.writeQueue # <<>> THEN BeginNext(q)
       ELSE [q EXCEPT !.isProcessing = FALSE]

\* the loop is left without isProcessing being reset
ResumeQueue_leavesFlag(p) ==
    LET q == [p EXCEPT !.settled =
                  Append(@, IF p.running.threw THEN "rejected" ELSE "resolved"),
                       !.running = NotRunning]
    IN IF q.writeQueue # <<>> THEN BeginNext(q) ELSE q

\* processQueue resumed after its await: settle, then loop or leave
ResumeQueue(p) ==
    LET q == [p EXCEPT !.settled =
                  Append(@, IF p.running.threw THEN "rejected" ELSE "resolved"),
                       !.running = NotRunning]
    IN IF q.writeQueue # <<>> THEN BeginNext(q)
       ELSE [q EXCEPT !.isProcessing = FALSE]

Op(type, k, e, es) ==
    [type |-> type, key |-> k, entry |-> e, entries |-> es]

queueWrite(p, operation) ==
    processQueue([p EXCEPT
        !.writeQueue = Append(@, [id |-> p.nextId, type |-> operation.type,
                                  key |-> operation.key,
                                  entry |-> operation.entry,
                                  entries |-> operation.entries]),
        !.nextId = @ + 1])

save(p, k, e) == queueWrite(p, Op("save", k, e, <<>>))
delete(p, k) == queueWrite(p, Op("delete", k, None, <<>>))
clear_dropped(p) == p
clear(p) == queueWrite(p, Op("clear", None, None, <<>>))
saveAll(p, es) == queueWrite(p, Op("saveAll", None, None, es))

\* flush() up to its loop: cancel the timer, write the pending buffer
flushBegin(p) == flushPendingWrites(clearBatchTimer(p))

\* only the length of the queue is tested
Drained_queueOnly(p) == p.writeQueue = <<>>

\* the condition that ends the loop of flush()
Drained(p) == p.writeQueue = <<>> /\ ~p.isProcessing

(***************************************************************************)
(* LRUCache methods                                                        *)
(***************************************************************************)
\* the number of calls explored: fewer when every call also drives the disk
\* the default of persistPath in the constructor
DefaultPath == "~/.toonify-mcp/cache/optimization-cache.json"

\* this.persistentCache is set: the constructor creates it only when
\* persistent is true and persistPath is not empty
HasPersistentCache == config.persistent /\ config.persistPath # ""

CallLimit == IF HasPersistentCache THEN MaxDiskCalls ELSE MaxOps

Ret(op, k, v, gone) == [op |-> op, key |-> k, val |-> v, evicted |-> gone]

Forget(w, ks) == [k \in Keys |-> IF k \in ks THEN NoWrite ELSE w[k]]

isEnabled_always == TRUE

\* the test `!this.config.enabled` that opens get() and set()
isEnabled == config.enabled

\* LRUCache.set(key, value)
Set(k, v) ==
    /\ calls < CallLimit
    /\ calls' = calls + 1
    /\ IF ~isEnabled
       THEN /\ ret' = Ret("set", k, Undefined, {})
            /\ UNCHANGED <<cache, stats, totalAccessCount, written, recency,
                           pvars, synced>>
       ELSE LET evict == needsEviction(cache, k)
                \* evictLRU()
                found == evict /\ cache # <<>>
                firstKey == cache[1].key
                c1 == IF found THEN MapDelete(cache, firstKey) ELSE cache
                total1 == IF found
                          THEN totalAccessCount - cache[1].accessCount
                          ELSE totalAccessCount
                st1 == IF found
                       THEN [stats EXCEPT !.evictions = @ + 1,
                                          !.currentSize = Len(c1)]
                       ELSE stats
                p1 == IF found /\ HasPersistentCache
                      THEN delete(PC, firstKey) ELSE PC
                \* back in set()
                entry == NewEntry(k, v, now)
                c2 == MapSet(c1, k, entry)
                p2 == IF HasPersistentCache THEN save(p1, k, entry) ELSE p1
                gone == IF found THEN {firstKey} ELSE {}
            IN /\ cache' = c2
               /\ stats' = [st1 EXCEPT !.currentSize = Len(c2)]
               /\ totalAccessCount' = total1
               /\ SetPC(p2)
               /\ ret' = Ret("set", k, Undefined, gone)
               /\ written' = [Forget(written, gone) EXCEPT
                                 ![k] = [value |-> v, at |-> now]]
               /\ recency' = IF MapHas(cache, k) THEN recency
                             ELSE Append(IF found THEN RemoveKey(recency, firstKey)
                                         ELSE recency, k)
               /\ synced' = Forget(synced, gone \cup {k})
    /\ UNCHANGED <<config, optimizer, now, diskFault, flushPc, saved, owed,
                   savePc,
                   instance>>

\* LRUCache.get(key)
Get(k) ==
    /\ calls < CallLimit
    /\ calls' = calls + 1
    /\ IF ~isEnabled
       THEN /\ ret' = Ret("get", k, Undefined, {})
            /\ UNCHANGED <<cache, stats, totalAccessCount, written, recency,
                           synced>>
       ELSE IF ~MapHas(cache, k)
       THEN /\ stats' = updateStats([stats EXCEPT !.misses = @ + 1],
                                    cache, totalAccessCount)
            /\ ret' = Ret("get", k, Undefined, {})
            /\ UNCHANGED <<cache, totalAccessCount, written, recency, synced>>
       ELSE LET entry == MapGet(cache, k) IN
            IF isExpired(entry, now)
            THEN LET total1 == totalAccessCount - entry.accessCount
                     c1 == MapDelete(cache, k)
                 IN /\ totalAccessCount' = total1
                    /\ cache' = c1
                    /\ stats' = updateStats(
                           [stats EXCEPT !.expirations = @ + 1,
                                         !.misses = @ + 1], c1, total1)
                    /\ ret' = Ret("get", k, Undefined, {})
                    /\ written' = Forget(written, {k})
                    /\ synced' = Forget(synced, {k})
                    /\ recency' = RemoveKey(recency, k)
            ELSE LET touched == touchEntry(entry, now)
                     total1 == totalAccessCount + 1
                     c1 == moveToEnd(cache, k, touched)
                 IN /\ totalAccessCount' = total1
                    /\ cache' = c1
                    /\ stats' = updateStats([stats EXCEPT !.hits = @ + 1],
                                            c1, total1)
                    /\ ret' = Ret("get", k, touched.value, {})
                    /\ recency' = Append(RemoveKey(recency, k), k)
                    /\ UNCHANGED <<written, synced>>
    /\ UNCHANGED <<config, optimizer, now, pvars, flushPc, saved, owed, savePc,
                   instance>>

\* has() deleting the expired entry it finds, as get() does
Has_removesExpired(k) ==
    /\ calls < CallLimit
    /\ calls' = calls + 1
    /\ LET found == MapHas(cache, k)
           dead == found /\ isExpired(MapGet(cache, k), now)
       IN /\ ret' = Ret("has", k, found /\ ~dead, {})
          /\ cache' = IF dead THEN MapDelete(cache, k) ELSE cache
    /\ UNCHANGED <<config, optimizer, stats, totalAccessCount, now, written,
                   recency,
                   pvars, fvars>>

\* LRUCache.has(key)
Has(k) ==
    /\ calls < CallLimit
    /\ calls' = calls + 1
    /\ ret' = Ret("has", k,
                  MapHas(cache, k) /\ ~isExpired(MapGet(cache, k), now), {})
    /\ UNCHANGED <<config, optimizer, cache, stats, totalAccessCount, now,
                   written,
                   recency, pvars, fvars>>

\* LRUCache.clear()
Clear ==
    /\ calls < CallLimit
    /\ calls' = calls + 1
    /\ cache' = <<>>
    /\ stats' = [stats EXCEPT !.currentSize = 0]
    /\ totalAccessCount' = 0
    /\ SetPC(IF HasPersistentCache THEN clear(PC) ELSE PC)
    /\ ret' = Ret("clear", None, Undefined, {})
    /\ written' = Forget(written, Keys)
    /\ synced' = Forget(synced, Keys)
    /\ recency' = <<>>
    /\ UNCHANGED <<config, optimizer, now, diskFault, flushPc, saved, owed,
                   savePc,
                   instance>>

RECURSIVE DeleteAll(_, _)
\* persistentCache.delete(key) for the keys ks, in order
DeleteAll(p, ks) ==
    IF ks = <<>> THEN p ELSE DeleteAll(delete(p, Head(ks)), Tail(ks))

RECURSIVE SumAccess(_)
SumAccess(m) ==
    IF m = <<>> THEN 0 ELSE Head(m).accessCount + SumAccess(Tail(m))

isStale_inclusive(entry, t) == t >= entry.expiresAt

\* cleanup(): the test of its loop on one entry
isStale(entry, t) == t > entry.expiresAt

\* LRUCache.cleanup()
Cleanup ==
    /\ calls < CallLimit
    /\ calls' = calls + 1
    /\ LET stale == SelectSeq(cache, LAMBDA e : isStale(e, now))
           kept == SelectSeq(cache, LAMBDA e : ~isStale(e, now))
           removed == Len(stale)
       IN /\ totalAccessCount' = totalAccessCount - SumAccess(stale)
          /\ cache' = kept
          /\ stats' = [stats EXCEPT !.expirations = @ + removed,
                                    !.currentSize = Len(kept)]
          /\ SetPC(IF HasPersistentCache
                   THEN DeleteAll(PC, KeySeq(stale)) ELSE PC)
          /\ ret' = Ret("cleanup", None, removed, {})
          /\ written' = Forget(written, MapKeys(stale))
          /\ synced' = Forget(synced, MapKeys(stale))
          /\ recency' = SelectSeq(recency, LAMBDA x : x \notin MapKeys(stale))
    /\ UNCHANGED <<config, optimizer, now, diskFault, flushPc, saved, owed,
                   savePc,
                   instance>>

\* time passes, up to the time limit
TickTo(limit) ==
    /\ now + TickMs <= limit
    /\ now' = now + TickMs
    /\ UNCHANGED <<config, optimizer, cache, stats, totalAccessCount, ret,
                   calls,
                   written, recency, pvars, fvars>>

Tick == TickTo(MaxTime)

(***************************************************************************)
(* The in-memory cache alone: persistent = false                           *)
(***************************************************************************)
InitTables ==
    /\ cache = <<>>
    /\ stats = InitStats(config.maxSize)
    /\ totalAccessCount = 0
    /\ now = 0
    /\ ret = Ret("new", None, Undefined, {})
    /\ calls = 0
    /\ written = [k \in Keys |-> NoWrite]
    /\ recency = <<>>
    /\ writeQueue = <<>>
    /\ isProcessing = FALSE
    /\ pendingWrites = <<>>
    /\ batchTimer = NoTimer
    /\ file = NoFile
    /\ tmp = NoFile
    /\ fsLog = <<>>
    /\ running = NotRunning
    /\ settled = <<>>
    /\ nextId = 1
    /\ lastStarted = 0
    /\ diskFault = FALSE
    /\ crashed = FALSE
    /\ flushPc = "idle"
    /\ saved = [k \in Keys |-> NoEntry]
    /\ owed = [k \in Keys |-> NoEntry]
    /\ savePc = Idle
    /\ instance = 0
    /\ synced = [k \in Keys |-> NoWrite]

InitCommon == InitTables /\ optimizer = NoOptimizer

InitCache ==
    /\ config \in [enabled : BOOLEAN, maxSize : 1..MaxCap, ttl : TTLs,
                    persistent : {FALSE},
                    persistPath : {DefaultPath}]
    /\ InitCommon

NextCache ==
    \/ \E k \in Keys, v \in Values : Set(k, v)
    \/ \E k \in Keys : Get(k)
    \/ \E k \in Keys : Has(k)
    \/ Clear
    \/ Cleanup
    \/ Tick

SpecCache == InitCache /\ [][NextCache]_vars

(***************************************************************************)
(* Properties of the in-memory cache                                       *)
(***************************************************************************)
\* the step is a call of op on key k
StepIs(op, k) == calls' = calls + 1 /\ ret'.op = op /\ ret'.key = k

\* the step is a call of get on k that returned a value
GetHit(k) == StepIs("get", k) /\ ret'.val # Undefined

C3_OverwriteMovesToMRU ==
    [][\A k \in Keys :
        (StepIs("set", k) /\ config.enabled /\ MapHas(cache, k))
        => cache'[Len(cache')].key = k]_vars

\* C4: on an enabled cache get(k) returns the value of the most recent
\* set(k, v) when k has not since been evicted, expired or cleared, and a
\* miss otherwise.
C4_GetReturnsLastSet ==
    [][\A k \in Keys :
        (StepIs("get", k) /\ config.enabled)
        => ret'.val = IF /\ written[k] # NoWrite
                         /\ ~(now > written[k].at + config.ttl)
                      THEN written[k].value ELSE Undefined]_vars

C4_Witness ==
    /\ ret.op = "get" /\ ret.val = "v2" /\ calls = 3
    /\ stats.evictions = 0 /\ Len(cache) = 1 /\ cache[1].timestamp > 0

\* C5: get on a resident entry whose expiresAt is earlier than the current
\* time is a miss that removes the entry, adds one to misses and to
\* expirations, leaves hits alone and takes the entry's accessCount off
\* totalAccessCount.
C5_GetExpired ==
    [][\A k \in Keys :
        (/\ StepIs("get", k) /\ config.enabled /\ MapHas(cache, k)
         /\ MapGet(cache, k).expiresAt < now)
        => /\ ret'.val = Undefined
           /\ cache' = MapDelete(cache, k)
           /\ stats'.misses = stats.misses + 1
           /\ stats'.expirations = stats.expirations + 1
           /\ stats'.hits = stats.hits
           /\ totalAccessCount' =
                 totalAccessCount - MapGet(cache, k).accessCount]_vars

C5_Witness ==
    /\ ret.op = "get" /\ ret.val = Undefined
    /\ stats.expirations = 1 /\ stats.misses = 1 /\ stats.hits = 1
    /\ totalAccessCount = 0 /\ calls = 3 /\ cache = <<>>

\* C6: the expiresAt of a resident entry changes only by set on its key,
\* it is the time of that set plus ttl, and a get later than that time is a
\* miss however often the entry was read.
C6_TTLWriteAnchored ==
    [][\A k \in Keys :
        /\ (/\ MapHas(cache, k) /\ MapHas(cache', k)
            /\ MapGet(cache', k).expiresAt # MapGet(cache, k).expiresAt)
           => StepIs("set", k)
        /\ MapHas(cache', k)
           => MapGet(cache', k).expiresAt = written'[k].at + config.ttl
        /\ (/\ StepIs("get", k) /\ written[k] # NoWrite
            /\ now > written[k].at + config.ttl)
           => ret'.val = Undefined]_vars

C6_Witness ==
    /\ ret.op = "get" /\ ret.val = Undefined /\ ret.key = "a"
    /\ stats.hits = 2 /\ stats.expirations = 1 /\ calls = 4
    /\ now = 2 * TickMs

\* C12: cleanup removes exactly the resident entries whose expiresAt is
\* earlier than the time of the call, returns their number, adds it to the
\* expiration counter, takes their accessCount off the running total and
\* keeps the other entries as they were, in their previous order.
C12_CleanupRemovesExpired ==
    [][StepIs("cleanup", None) =>
        LET gone == {k \in MapKeys(cache) : MapGet(cache, k).expiresAt < now}
            n == Cardinality(gone)
        IN /\ cache' = SelectSeq(cache, LAMBDA e : e.key \notin gone)
           /\ recency' = SelectSeq(recency, LAMBDA k : k \notin gone)
           /\ ret'.val = n
           /\ stats'.expirations = stats.expirations + n
           /\ totalAccessCount' = totalAccessCount -
                  SumAccess(SelectSeq(cache, LAMBDA e : e.key \in gone))]_vars

\* one expired entry removed, two younger ones left in place
C12_Witness ==
    /\ ret.op = "cleanup" /\ ret.val = 1 /\ calls = 4
    /\ KeySeq(cache) = <<"b", "c">> /\ stats.expirations = 1
    /\ now = 2 * TickMs

\* a fraction <<n, d>> has the value a / b
FracIs(f, a, b) == f[2] > 0 /\ f[1] * b = a * f[2]

\* C13: in every reachable state the running total equals the sum of
\* accessCount over the resident entries.
C13_RunningTotalIsSum == totalAccessCount = SumAccess(cache)

\* C14: in every snapshot of the statistics averageAccessCount is the sum of
\* accessCount over the resident entries divided by their number, and 0 when
\* the table is empty.
C14_AverageIsRecomputed ==
    IF cache = <<>> THEN FracIs(stats.averageAccessCount, 0, 1)
    ELSE FracIs(stats.averageAccessCount, SumAccess(cache), Len(cache))

\* C15: a get hit on k adds one to the accessCount of k, to the hit counter
\* and to the running total, and leaves the accessCount of every other entry
\* and the miss counter as they were.
C15_HitCountsOnce ==
    [][\A k \in Keys : GetHit(k) =>
        /\ MapHas(cache, k) /\ MapHas(cache', k)
        /\ MapGet(cache', k).accessCount = MapGet(cache, k).accessCount + 1
        /\ stats'.hits = stats.hits + 1
        /\ stats'.misses = stats.misses
        /\ totalAccessCount' = totalAccessCount + 1
        /\ \A j \in MapKeys(cache) \ {k} :
               /\ MapHas(cache', j)
               /\ MapGet(cache', j).accessCount = MapGet(cache, j).accessCount
       ]_vars

\* a key set once and read by three successful gets, beside another entry
C15_Witness ==
    /\ ret.op = "get" /\ ret.key = "a" /\ ret.val # Undefined
    /\ calls = 4 /\ stats.hits = 3 /\ stats.misses = 0
    /\ MapHas(cache, "a") /\ MapGet(cache, "a").accessCount = 3

\* C16: the hit rate of every snapshot of the statistics is hits divided by
\* hits + misses of the same snapshot, and 0 when there was no request.
C16_HitRateIsRatio ==
    IF stats.hits + stats.misses = 0 THEN FracIs(stats.hitRate, 0, 1)
    ELSE FracIs(stats.hitRate, stats.hits, stats.hits + stats.misses)

\* a hit, a miss on an absent key and a miss on an expired one
C16_Witness ==
    /\ stats.hits = 1 /\ stats.misses = 2 /\ stats.expirations = 1
    /\ stats.hitRate = <<1, 3>>

\* C17: has(k) returns true exactly when k is resident and not expired, and
\* leaves the table, its order, every entry, the running total and the
\* statistics as they were, also when k is resident but expired.
C17_HasIsReadOnly ==
    [][\A k \in Keys : StepIs("has", k) =>
        /\ ret'.val = (MapHas(cache, k) /\ MapGet(cache, k).expiresAt >= now)
        /\ UNCHANGED <<cache, recency, totalAccessCount, stats>>]_vars

\* has on a resident entry that has expired, read earlier by a get
C17_Witness ==
    /\ ret.op = "has" /\ ret.key = "a" /\ ret.val = FALSE
    /\ MapHas(cache, "a") /\ MapGet(cache, "a").expiresAt < now
    /\ MapGet(cache, "a").accessCount = 1 /\ stats.expirations = 0

MicrotasksDone ==
    /\ running = NotRunning
    /\ savePc.at \notin {"afterFlush", "saveAll"}

FileKeys(f) == IF f.json = "array" THEN MapKeys(f.items) ELSE {}

\* PersistentCache.save(key, entry)
PSave(k, v) ==
    /\ calls < MaxWrites
    /\ calls' = calls + 1
    /\ LET entry == NewEntry(k, v, now)
       IN /\ SetPC(save(PC, k, entry))
          /\ saved' = [saved EXCEPT ![k] = entry]
    /\ owed' = [owed EXCEPT ![k] = NoEntry]
    /\ ret' = Ret("save", k, Undefined, {})
    /\ UNCHANGED <<config, optimizer, cache, stats, totalAccessCount, now,
                   written,
                   recency, diskFault, flushPc, savePc, synced, instance>>

\* PersistentCache.delete(key)
PDelete(k) ==
    /\ calls < MaxWrites
    /\ calls' = calls + 1
    /\ SetPC(delete(PC, k))
    /\ saved' = [saved EXCEPT ![k] =
                    IF ret.op = "save" /\ ret.key = k
                    THEN Tombstone ELSE NoEntry]
    /\ owed' = [owed EXCEPT ![k] = NoEntry]
    /\ ret' = Ret("delete", k, Undefined, {})
    /\ UNCHANGED <<config, optimizer, cache, stats, totalAccessCount, now,
                   written,
                   recency, diskFault, flushPc, savePc, synced, instance>>

\* PersistentCache.clear()
PClear ==
    /\ calls < MaxWrites
    /\ calls' = calls + 1
    /\ SetPC(clear(PC))
    /\ saved' = [k \in Keys |->
                    IF saved[k] = Tombstone THEN Tombstone ELSE NoEntry]
    /\ owed' = [k \in Keys |->
                   IF owed[k] = Tombstone THEN Tombstone ELSE NoEntry]
    /\ ret' = Ret("clear", None, Undefined, {})
    /\ UNCHANGED <<config, optimizer, cache, stats, totalAccessCount, now,
                   written,
                   recency, diskFault, flushPc, savePc, synced, instance>>

\* the keys the direct callers use
WriteKeys == {"a", "b"}

SaveAllArgs ==
    {<<>>} \cup {<<NewEntry(k, v, now)>> : k \in WriteKeys, v \in Values}

\* PersistentCache.saveAll(entries)
PSaveAll(entries) ==
    /\ calls < MaxWrites
    /\ calls' = calls + 1
    /\ SetPC(saveAll(PC, entries))
    /\ saved' = [k \in Keys |-> NoEntry]
    /\ owed' = [k \in Keys |-> NoEntry]
    /\ ret' = Ret("saveAll", None, Undefined, {})
    /\ UNCHANGED <<config, optimizer, cache, stats, totalAccessCount, now,
                   written,
                   recency, diskFault, flushPc, savePc, synced, instance>>

\* PersistentCache.flush(), from the call to its first await or its return
FlushCall ==
    /\ flushPc = "idle"
    /\ calls < MaxWrites
    /\ calls' = calls + 1
    /\ LET p == flushBegin(PC)
       IN /\ SetPC(p)
          /\ IF p.threw
             THEN /\ flushPc' = "idle"
                  /\ ret' = Ret("flush", None, "rejected", {})
             ELSE IF Drained(p)
             THEN /\ flushPc' = "idle"
                  /\ ret' = Ret("flush", None, "resolved", {})
             ELSE /\ flushPc' = "polling"
                  /\ ret' = Ret("flush", None, "pending", {})
    /\ owed' = saved
    /\ UNCHANGED <<config, optimizer, cache, stats, totalAccessCount, now,
                   written,
                   recency, diskFault, saved, savePc, synced, instance>>

\* flush() resumed by its 10 ms timer: test the loop condition again
FlushPoll ==
    /\ flushPc = "polling"
    /\ MicrotasksDone
    /\ IF Drained(PC)
       THEN /\ flushPc' = "idle"
            /\ ret' = Ret("flush", None, "resolved", {})
       ELSE UNCHANGED <<flushPc, ret>>
    /\ UNCHANGED <<config, optimizer, cache, stats, totalAccessCount, now,
                   calls,
                   written, recency, pvars, saved, owed, savePc, synced,
                   instance>>

\* the continuation of processQueue after `await executeOperation`
ProcessStep ==
    /\ running # NotRunning
    /\ SetPC(ResumeQueue(PC))
    /\ UNCHANGED <<cvars, diskFault, fvars>>

\* the callback of batchTimer
TimerFire ==
    /\ batchTimer.armed
    /\ now >= batchTimer.due
    /\ MicrotasksDone
    /\ SetPC(timerCallback(PC))
    /\ UNCHANGED <<cvars, diskFault, fvars>>

InitPersist ==
    /\ config = [enabled |-> TRUE, maxSize |-> MaxCap, ttl |-> 2 * TickMs,
                 persistent |-> TRUE, persistPath |-> DefaultPath]
    /\ InitCommon

NextPersist ==
    \/ \E k \in WriteKeys, v \in Values : PSave(k, v)
    \/ \E k \in WriteKeys : PDelete(k)
    \/ PClear
    \/ \E es \in SaveAllArgs : PSaveAll(es)
    \/ FlushCall
    \/ FlushPoll
    \/ ProcessStep
    \/ TimerFire
    \/ Tick

SpecPersist == InitPersist /\ [][NextPersist]_vars

(***************************************************************************)
(* Properties of the persistence coordinator                               *)
(***************************************************************************)
\* the step in which flush() returns normally to its caller
FlushReturns ==
    /\ ret'.op = "flush" /\ ret'.val = "resolved"
    /\ flushPc' = "idle"
    /\ flushPc = "polling" \/ calls' = calls + 1

InFile(f, e) == \E i \in 1..Len(f.items) : f.json = "array" /\ f.items[i] = e

\* C8: when flush() returns the pending buffer is empty, no debounced write
\* is scheduled, and every entry given to save before the call and not
\* superseded since is in the snapshot file, also when its save was still
\* waiting in the queue at the call.
C8_FlushLeavesNothingPending ==
    [][FlushReturns
       => /\ pendingWrites' = <<>>
          /\ ~batchTimer'.armed
          /\ \A k \in Keys :
                owed'[k] \notin {NoEntry, Tombstone} => InFile(file', owed'[k])]_vars

\* C9: the queued operations are begun in the order of their issue, each
\* only after the one before it has settled, and at most one is executing.
C9_OneAtATimeInOrder ==
    [][/\ lastStarted' # lastStarted
          => /\ lastStarted' = lastStarted + 1
             /\ Len(settled') = lastStarted
       /\ lastStarted' - Len(settled') \in {0, 1}
       /\ (running' # NotRunning) <=> (lastStarted' = Len(settled') + 1)]_vars

C9_Witness ==
    /\ lastStarted = 3 /\ Len(settled) = 2 /\ running # NotRunning
    /\ running.op.type = "delete" /\ nextId = 4 /\ calls = 3
    /\ file # NoFile

SnapshotOf(f) == IF f.json = "array" THEN f.items ELSE <<>>

\* the step in which the queue takes up an operation of the given type
Begins(type) ==
    /\ lastStarted' # lastStarted
    /\ running'.op.type = type

\* the step in which the pending buffer is written out: the callback of the
\* debounce timer, or a call of flush()
DebouncedWrite ==
    /\ pendingWrites # <<>>
    /\ \/ /\ calls' = calls /\ lastStarted' = lastStarted
          /\ batchTimer.armed /\ ~batchTimer'.armed
       \/ calls' = calls + 1 /\ ret'.op = "flush"

C24_SaveAllSupersedes ==
    [][/\ Begins("saveAll") =>
           /\ pendingWrites' = <<>>
           /\ ~batchTimer'.armed
           /\ file' = JSONStringify(running'.op.entries)
           /\ tmp' = NoFile
       /\ (/\ ret.op = "saveAll" /\ lastStarted = nextId - 1
           /\ calls' = calls \/ ret'.op = "flush")
          => /\ file' = file
             /\ pendingWrites' = <<>>
             /\ ~batchTimer'.armed]_vars

\* saveAll([]) executed second, long enough ago for a timer of the first
\* call to have come due
C24_Witness ==
    /\ ret.op = "saveAll" /\ calls = 2 /\ lastStarted = 2
    /\ settled = <<"resolved", "resolved">>
    /\ now = MaxTime /\ file = JSONStringify(<<>>)

\* nothing is on disk and nothing that would write is buffered, scheduled
\* or queued
Absent ==
    /\ file = NoFile /\ pendingWrites = <<>> /\ ~batchTimer.armed
    /\ \A i \in 1..Len(writeQueue) :
           writeQueue[i].type \notin {"save", "saveAll"}

\* C25: the step that executes clear leaves the pending buffer empty, no
\* debounce timer scheduled and no snapshot file; from then on the file
\* stays absent through every step that is not a call of save or saveAll.
C25_ClearLeavesNoFile ==
    [][/\ Begins("clear") =>
           /\ pendingWrites' = <<>>
           /\ ~batchTimer'.armed
           /\ file' = NoFile
       /\ (Absent /\ ret'.op \notin {"save", "saveAll"}) => Absent'
       /\ (Absent /\ calls' = calls) => Absent']_vars

\* clear executed second, long enough ago for a timer of the first call to
\* have come due, and no file
C25_Witness ==
    /\ ret.op = "clear" /\ calls = 2 /\ lastStarted = 2
    /\ settled = <<"resolved", "resolved">>
    /\ now = MaxTime /\ file = NoFile

\* C26: in the state in which flush() returns, no operation is waiting in
\* the queue and none is executing.
C26_FlushReturnsWhenDrained ==
    [][FlushReturns =>
        /\ writeQueue' = <<>>
        /\ ~isProcessing'
        /\ running' = NotRunning]_vars

\* flush() has returned after two operations went through the queue
C26_Witness ==
    /\ ret.op = "flush" /\ ret.val = "resolved" /\ flushPc = "idle"
    /\ lastStarted = 2 /\ Len(settled) = 2

C11_AtomicReplace ==
    \A i \in 1..Len(fsLog) :
        /\ fsLog[i].file # Partial
        /\ fsLog[i].file \in {fsLog[i].old, fsLog[i].new}
        /\ fsLog[i].call = "renameSync" => fsLog[i].file = fsLog[i].new

\* the rewrite done by a delete replaces a snapshot of two entries by one of
\* one entry, the temporary file being partly written on the way
C11_Witness ==
    /\ Len(fsLog) = 3
    /\ running.op.type = "delete" /\ lastStarted = running.op.id
    /\ fsLog[1].old.json = "array" /\ Len(fsLog[1].old.items) = 2
    /\ Len(fsLog[1].new.items) = 1
    /\ fsLog[1].tmp = Partial /\ fsLog[1].file = fsLog[1].old
    /\ fsLog[3].file = fsLog[1].new /\ file = fsLog[3].file

(***************************************************************************)
(* The cache with its disk mirror: saveToDisk and a fresh instance         *)
(***************************************************************************)
MaxInstances == 1
MaxDiskTime == 100

\* the calls of set explored together with the disk mirror
DiskSets == (WriteKeys \X {"v1"}) \cup {<<"a", "v2">>}

DiskTick == TickTo(MaxDiskTime)

Rejected ==
    /\ savePc' = [savePc EXCEPT !.at = "idle"]
    /\ ret' = Ret("saveToDisk", None, "rejected", {})
    /\ synced' = [k \in Keys |-> NoWrite]

Resolved ==
    /\ savePc' = [savePc EXCEPT !.at = "idle"]
    /\ ret' = Ret("saveToDisk", None, "resolved", {})
    /\ UNCHANGED synced

\* LRUCache.saveToDisk(), from the call into the first flush()
SaveToDiskCall ==
    /\ savePc.at = "idle"
    /\ calls < CallLimit
    /\ calls' = calls + 1
    /\ HasPersistentCache
    /\ LET p == flushBegin(PC)
       IN /\ SetPC(p)
          /\ IF p.threw
             THEN /\ savePc' = [savePc EXCEPT !.n = @ + 1]
                  /\ ret' = Ret("saveToDisk", None, "rejected", {})
                  /\ synced' = [k \in Keys |-> NoWrite]
             ELSE /\ savePc' = [at |-> IF Drained(p) THEN "afterFlush"
                                       ELSE "flush1",
                                op |-> 0, n |-> savePc.n + 1]
                  /\ ret' = Ret("saveToDisk", None, "pending", {})
                  /\ synced' = written
    /\ UNCHANGED <<config, optimizer, cache, stats, totalAccessCount, now,
                   written,
                   recency, diskFault, flushPc, saved, owed, instance>>

\* the first flush() resumed by its 10 ms timer
SaveToDiskPoll1 ==
    /\ savePc.at = "flush1"
    /\ MicrotasksDone
    /\ savePc' = IF Drained(PC) THEN [savePc EXCEPT !.at = "afterFlush"]
                 ELSE savePc
    /\ UNCHANGED <<cvars, pvars, flushPc, saved, owed, synced, instance>>

\* saveToDisk() resumed after the first flush(): saveAll of the table
SaveToDiskSaveAll ==
    /\ savePc.at = "afterFlush"
    /\ savePc' = [savePc EXCEPT !.at = "saveAll", !.op = nextId]
    /\ SetPC(saveAll(PC, cache))
    /\ UNCHANGED <<cvars, diskFault, flushPc, saved, owed, synced, instance>>

\* saveToDisk() resumed when its saveAll has settled: the second flush()
SaveToDiskFlush2 ==
    /\ savePc.at = "saveAll"
    /\ Len(settled) >= savePc.op
    /\ IF settled[savePc.op] = "rejected"
       THEN Rejected /\ UNCHANGED pvars
       ELSE LET p == flushBegin(PC)
            IN /\ SetPC(p)
               /\ UNCHANGED diskFault
               /\ IF p.threw THEN Rejected
                  ELSE IF Drained(p) THEN Resolved
                  ELSE /\ savePc' = [savePc EXCEPT !.at = "flush2"]
                       /\ UNCHANGED <<ret, synced>>
    /\ UNCHANGED <<config, optimizer, cache, stats, totalAccessCount, now,
                   calls,
                   written, recency, flushPc, saved, owed, instance>>

\* the second flush() resumed by its 10 ms timer
SaveToDiskPoll2 ==
    /\ savePc.at = "flush2"
    /\ MicrotasksDone
    /\ IF Drained(PC) THEN Resolved ELSE UNCHANGED <<savePc, ret, synced>>
    /\ UNCHANGED <<config, optimizer, cache, stats, totalAccessCount, now,
                   calls,
                   written, recency, pvars, flushPc, saved, owed, instance>>

\* every entry of the snapshot is taken, expired or not
loadFromDisk_loadsAll(entries, t) ==
    [cache |-> MapFromEntries(entries), total |-> SumAccess(entries),
     expirations |-> 0]

RECURSIVE loadFromDisk(_, _)
\* the table and the counters after the loop of loadFromDisk over entries
loadFromDisk(entries, t) ==
    IF entries = <<>> THEN [cache |-> <<>>, total |-> 0, expirations |-> 0]
    ELSE LET n == Len(entries)
             entry == entries[n]
             r == loadFromDisk(SubSeq(entries, 1, n - 1), t)
         IN IF t > entry.expiresAt
            THEN [r EXCEPT !.expirations = @ + 1]
            ELSE [r EXCEPT !.cache = MapSet(@, entry.key, entry),
                           !.total = @ + entry.accessCount]

\* new LRUCache(config) on the same persistPath, in place of the instance
\* so far, whose queue, buffer and timers are gone with it
Restart ==
    /\ instance < MaxInstances
    /\ instance' = instance + 1
    /\ HasPersistentCache
    /\ LET p == NewPC(file, diskFault, now)
           r == loadFromDisk(loadAll(p), now)
       IN /\ SetPC(p)
          /\ cache' = r.cache
          /\ totalAccessCount' = r.total
          /\ stats' = [InitStats(config.maxSize) EXCEPT
                          !.expirations = r.expirations,
                          !.currentSize = Len(r.cache)]
          /\ recency' = KeySeq(r.cache)
    /\ ret' = Ret("new", None, Undefined, {})
    /\ written' = [k \in Keys |-> NoWrite]
    /\ synced' = IF savePc.at = "idle" THEN synced
                 ELSE [k \in Keys |-> NoWrite]
    /\ savePc' = [savePc EXCEPT !.at = "idle", !.op = 0]
    /\ flushPc' = "idle"
    /\ UNCHANGED <<config, optimizer, now, calls, diskFault, saved, owed>>

Init ==
    /\ config = [enabled |-> TRUE, maxSize |-> MaxCap,
                 ttl |-> TickMs \div 2, persistent |-> TRUE, persistPath |-> DefaultPath]
    /\ InitCommon

Next ==
    \/ \E kv \in DiskSets : Set(kv[1], kv[2])
    \/ \E k \in WriteKeys : Get(k)
    \/ Clear
    \/ DiskTick
    \/ ProcessStep
    \/ TimerFire
    \/ SaveToDiskCall
    \/ SaveToDiskPoll1
    \/ SaveToDiskSaveAll
    \/ SaveToDiskFlush2
    \/ SaveToDiskPoll2
    \/ Restart

Spec == Init /\ [][Next]_vars

(***************************************************************************)
(* The cache with its disk mirror, one instance and no saveToDisk          *)
(***************************************************************************)
InitMirror ==
    /\ config \in [enabled : {TRUE}, maxSize : {1, MaxCap}, ttl : {TickMs},
                    persistent : {TRUE},
                    persistPath : {DefaultPath}]
    /\ InitCommon

NextMirror ==
    \/ \E kv \in DiskSets : Set(kv[1], kv[2])
    \/ \E k \in WriteKeys : Get(k)
    \/ Clear
    \/ Cleanup
    \/ Tick
    \/ ProcessStep
    \/ TimerFire

SpecMirror == InitMirror /\ [][NextMirror]_vars

(***************************************************************************)
(* A cache constructed on a snapshot file left by an earlier process       *)
(***************************************************************************)
\* entries of such a file: written TickMs ago or 2 * TickMs ago
OldEntries ==
    {NewEntry(k, "v1", t) : k \in WriteKeys, t \in {-2 * TickMs, -TickMs}}

\* the files found at persistPath: none, a truncated one, JSON that is not
\* an array, arrays of up to two entries with distinct keys
Snapshots ==
    {NoFile, Partial}
    \cup {NotAList(<<e>>) : e \in OldEntries}
    \cup {JSONStringify(<<>>)}
    \cup {JSONStringify(<<e>>) : e \in OldEntries}
    \cup {JSONStringify(<<e, f>>) :
             <<e, f>> \in {x \in OldEntries \X OldEntries : x[1].key # x[2].key}}

\* PersistentCache.loadAll() called directly
LoadAllCall ==
    /\ calls < CallLimit
    /\ calls' = calls + 1
    /\ ret' = Ret("loadAll", None, loadAll(PC), {})
    /\ UNCHANGED <<config, optimizer, cache, stats, totalAccessCount, now,
                   written,
                   recency, pvars, fvars>>

InitLoad ==
    /\ config \in [enabled : {TRUE}, maxSize : {1, MaxCap}, ttl : {TickMs},
                    persistent : {TRUE}, persistPath : {DefaultPath}]
    /\ now = 0
    /\ tmp = NoFile
    /\ diskFault = FALSE
    /\ crashed = FALSE
    /\ file \in Snapshots
    /\ LET r == loadFromDisk(loadAll(NewPC(file, diskFault, now)), now)
       IN /\ cache = r.cache
          /\ totalAccessCount = r.total
          /\ stats = [InitStats(config.maxSize) EXCEPT
                         !.expirations = r.expirations,
                         !.currentSize = Len(r.cache)]
          /\ recency = KeySeq(r.cache)
    /\ ret = Ret("new", None, Undefined, {})
    /\ calls = 0
    /\ written = [k \in Keys |-> NoWrite]
    /\ writeQueue = <<>>
    /\ isProcessing = FALSE
    /\ pendingWrites = <<>>
    /\ batchTimer = NoTimer
    /\ fsLog = <<>>
    /\ running = NotRunning
    /\ settled = <<>>
    /\ nextId = 1
    /\ lastStarted = 0
    /\ flushPc = "idle"
    /\ saved = [k \in Keys |-> NoEntry]
    /\ owed = [k \in Keys |-> NoEntry]
    /\ savePc = Idle
    /\ instance = 0
    /\ synced = [k \in Keys |-> NoWrite]
    /\ optimizer = NoOptimizer

NextLoad ==
    \/ \E k \in WriteKeys : Get(k)
    \/ LoadAllCall
    \/ Tick
    \/ Restart

SpecLoad == InitLoad /\ [][NextLoad]_vars

(***************************************************************************)
(* PersistentCache on a disk that refuses writes from time to time         *)
(***************************************************************************)
\* the disk starts or stops refusing writeFileSync, renameSync, unlinkSync
FaultToggle ==
    /\ diskFault' = ~diskFault
    /\ UNCHANGED <<cvars, writeQueue, isProcessing, pendingWrites,
                   batchTimer, file, tmp, fsLog, running, settled, nextId,
                   lastStarted, crashed, fvars>>

NextFault ==
    \/ \E k \in WriteKeys : PSave(k, "v1")
    \/ \E k \in WriteKeys : PDelete(k)
    \/ PClear
    \/ \E es \in SaveAllArgs : PSaveAll(es)
    \/ ProcessStep
    \/ FaultToggle

SpecFault == InitPersist /\ [][NextFault]_vars

\* one caller's operations on one key, with the continuation of
\* processQueue always run in the end, as the microtask queue of the event
\* loop does
NextQueue ==
    \/ PSave("a", "v1")
    \/ PDelete("a")
    \/ PClear
    \/ PSaveAll(<<NewEntry("a", "v1", now)>>)
    \/ ProcessStep
    \/ FaultToggle

SpecQueue == InitPersist /\ [][NextQueue]_vars /\ WF_vars(ProcessStep)

\* PersistentCache with its timer and flush() on such a disk; nothing runs
\* in a process that has ended
NextFaultTimer ==
    \/ ~crashed /\ \E k \in WriteKeys : PSave(k, "v1")
    \/ ~crashed /\ \E k \in WriteKeys : PDelete(k)
    \/ ~crashed /\ \E es \in SaveAllArgs : PSaveAll(es)
    \/ ~crashed /\ FlushCall
    \/ ~crashed /\ FlushPoll
    \/ ~crashed /\ ProcessStep
    \/ ~crashed /\ TimerFire
    \/ ~crashed /\ Tick
    \/ FaultToggle

SpecFaultTimer == InitPersist /\ [][NextFaultTimer]_vars

(***************************************************************************)
(* LRUCache with persistence on a disk that refuses writes                 *)
(***************************************************************************)
\* nothing runs in a process that has ended; the disk lives on
NextOutage ==
    \/ ~crashed /\ \E kv \in DiskSets : Set(kv[1], kv[2])
    \/ ~crashed /\ \E k \in WriteKeys : Get(k)
    \/ ~crashed /\ \E k \in WriteKeys : Has(k)
    \/ ~crashed /\ Clear
    \/ ~crashed /\ Cleanup
    \/ ~crashed /\ Tick
    \/ ~crashed /\ ProcessStep
    \/ ~crashed /\ TimerFire
    \/ FaultToggle

SpecOutage == InitMirror /\ [][NextOutage]_vars

(***************************************************************************)
(* Construction with arguments of any kind                                  *)
(***************************************************************************)
\* the configurations callers pass, valid and not
ConfigArgs ==
    [enabled : {TRUE}, maxSize : {0, 1}, ttl : {0, TickMs},
     persistent : BOOLEAN, persistPath : {"", DefaultPath}]

\* TokenOptimizer.validateResultCacheConfig(c) returns without throwing
validateResultCacheConfig(c) ==
    /\ c.enabled \in BOOLEAN
    /\ c.maxSize > 0
    /\ c.ttl > 0
    /\ c.persistent \in BOOLEAN
    /\ ~(c.persistent /\ c.persistPath = "")

\* new LRUCache(c), directly or from the constructor of TokenOptimizer,
\* which validates c first; the snapshot file does not exist yet
InitConfig ==
    /\ \E c \in ConfigArgs :
          \/ config = c
          \/ validateResultCacheConfig(c) /\ config = c
    /\ InitCommon

NextConfig ==
    \/ \E kv \in DiskSets : Set(kv[1], kv[2])
    \/ \E k \in WriteKeys : Get(k)
    \/ Tick
    \/ ProcessStep
    \/ TimerFire

SpecConfig == InitConfig /\ [][NextConfig]_vars

(***************************************************************************)
(* PersistentCache under saves that never stop arriving                    *)
(***************************************************************************)
\* Runs of this specification are infinite, so it keeps no history: the
\* numbering of operations starts again with each one and the list of
\* settlements is dropped.  Time is measured from the present: now stays 0
\* and the passing of time brings the deadline of the timer closer.
BurstMs == BATCH_DELAY_MS \div 2

Forgotten(p) == [p EXCEPT !.nextId = 1, !.settled = <<>>]

\* PersistentCache.save(key, entry), called from a task of its own, with an
\* entry the caller made
BurstSave(k, v) ==
    /\ MicrotasksDone
    /\ LET entry == NewEntry(k, v, 0)
       IN /\ SetPC(Forgotten(save(PC, k, entry)))
          /\ saved' = [saved EXCEPT ![k] = entry]
    /\ ret' = Ret("save", k, Undefined, {})
    /\ UNCHANGED <<config, optimizer, cache, stats, totalAccessCount, now,
                   calls,
                   written, recency, diskFault, flushPc, owed, savePc,
                   synced, instance>>

\* the continuation of processQueue after `await executeOperation`
BurstStep ==
    /\ running # NotRunning
    /\ SetPC(Forgotten(ResumeQueue(PC)))
    /\ UNCHANGED <<cvars, diskFault, fvars>>

\* BurstMs pass between two tasks while the timer is waiting
BurstTick ==
    /\ MicrotasksDone
    /\ batchTimer.armed
    /\ batchTimer.due > now
    /\ batchTimer' = [batchTimer EXCEPT !.due = @ - BurstMs]
    /\ UNCHANGED <<cvars, writeQueue, isProcessing, pendingWrites, file, tmp,
                   fsLog, running, settled, nextId, lastStarted, diskFault,
                   crashed, fvars>>

NextBurst ==
    \/ \E k \in WriteKeys, v \in Values : BurstSave(k, v)
    \/ BurstStep
    \/ BurstTick
    \/ TimerFire

\* continuations run, time passes, and a timer that is due fires once the
\* event loop is free; nothing is assumed about the callers
SpecBurst ==
    /\ InitPersist
    /\ [][NextBurst]_vars
    /\ WF_vars(BurstStep)
    /\ WF_vars(BurstTick)
    /\ WF_vars(TimerFire)

(***************************************************************************)
(* Properties of the cache with its disk mirror                            *)
(***************************************************************************)
\* C7: a key set before a completed saveToDisk, and not evicted, expired,
\* cleared or set again since, is returned with that value by get on a
\* fresh instance constructed on the same path.
C7_RoundTrip ==
    \A k \in Keys :
        (/\ ret.op = "get" /\ ret.key = k /\ instance > 0
         /\ written[k] = NoWrite /\ synced[k] # NoWrite
         /\ ~(now > synced[k].at + config.ttl))
        => ret.val = synced[k].value

C7_Witness ==
    /\ instance = 1 /\ ret.op = "get" /\ ret.key = "a" /\ ret.val = "v2"
    /\ written["a"] = NoWrite /\ synced["a"] = [value |-> "v2", at |-> 0]
    /\ synced["b"] # NoWrite /\ calls = 4

\* C18: clear() leaves the table empty and the running total at 0, so that
\* a get that follows it is a miss for every key, and it issues exactly one
\* clear to the persistence coordinator, behind the operations queued so far.
C18_ClearEmptiesAndMirrors ==
    [][/\ StepIs("clear", None) =>
           LET op == [id |-> nextId, type |-> "clear", key |-> None,
                      entry |-> None, entries |-> <<>>]
           IN /\ cache' = <<>>
              /\ totalAccessCount' = 0
              /\ stats'.currentSize = 0
              /\ nextId' = nextId + 1
              /\ IF isProcessing
                 THEN writeQueue' = Append(writeQueue, op)
                 ELSE /\ running'.op = op /\ writeQueue' = <<>>
                      /\ file' = NoFile /\ pendingWrites' = <<>>
       /\ \A k \in Keys :
              (ret.op = "clear" /\ StepIs("get", k)) => ret'.val = Undefined
      ]_vars

\* a table that had been read is cleared while the coordinator is busy, the
\* clear waiting in the queue
C18_Witness ==
    /\ ret.op = "clear" /\ cache = <<>> /\ totalAccessCount = 0
    /\ stats.hits = 1 /\ isProcessing
    /\ writeQueue # <<>> /\ writeQueue[Len(writeQueue)].type = "clear"

\* C21: construction with persistence puts into the table only snapshot
\* entries that are not expired at that time, and a get on a key whose
\* snapshot entry has expired is a miss.
C21_LoadSkipsExpired ==
    [][/\ instance' = instance + 1 =>
           /\ \A i \in 1..Len(cache') :
                  /\ cache'[i].expiresAt >= now
                  /\ InFile(file, cache'[i])
           /\ \A i \in 1..Len(SnapshotOf(file)) :
                  SnapshotOf(file)[i].expiresAt >= now
                      => MapHas(cache', SnapshotOf(file)[i].key)
       /\ \A k \in Keys :
              (/\ StepIs("get", k)
               /\ \E i \in 1..Len(SnapshotOf(file)) :
                      /\ SnapshotOf(file)[i].key = k
                      /\ SnapshotOf(file)[i].expiresAt < now)
              => ret'.val = Undefined]_vars

\* a second instance that kept one entry of the file and skipped the other,
\* asked for the skipped one
C21_Witness ==
    /\ instance = 1 /\ ret.op = "get" /\ ret.key = "a"
    /\ ret.val = Undefined
    /\ KeySeq(cache) = <<"b">> /\ stats.expirations = 1
    /\ Len(SnapshotOf(file)) = 2

\* C22: loadAll() returns the empty list when the file is missing, when
\* its text does not parse and when it parses to something else than an
\* array, and the stored entries otherwise.
C22_LoadAllNeverRaises ==
    [][StepIs("loadAll", None) =>
        ret'.val = CASE file = NoFile -> <<>>
                     [] file = Partial -> <<>>
                     [] file.json = "object" -> <<>>
                     [] OTHER -> file.items]_vars

\* loadAll on a file that holds an object instead of an array
C22_Witness ==
    /\ ret.op = "loadAll" /\ ret.val = <<>>
    /\ file.json = "object" /\ file.items # <<>>

\* the operation makes a file-system call that changes the disk
NeedsWrite(op, f) ==
    \/ op.type = "saveAll"
    \/ op.type = "delete" /\ op.key \in FileKeys(f)
    \/ op.type = "clear" /\ f # NoFile

\* C27: operations are taken up one by one in the order of their issue; an
\* operation is rejected exactly when its own disk write was refused, and
\* then leaves the file as it was; after each settlement the next queued
\* operation is taken up or the queue is marked idle; the queue is marked as
\* processing only while an operation awaits settlement; an operation
\* issued to an idle queue is taken up at once.
C27_FailureIsLocal ==
    [][/\ lastStarted' \in {lastStarted, lastStarted + 1}
       /\ lastStarted' # lastStarted =>
              /\ running'.op.id = lastStarted'
              /\ running'.threw = (diskFault /\ NeedsWrite(running'.op, file))
              /\ running'.threw => file' = file
       /\ Len(settled') # Len(settled) =>
              /\ settled' = Append(settled, IF running.threw THEN "rejected"
                                                             ELSE "resolved")
              /\ IF writeQueue # <<>>
                 THEN /\ running'.op.id = Head(writeQueue).id
                      /\ writeQueue' = Tail(writeQueue)
                 ELSE running' = NotRunning
       /\ isProcessing' = (running' # NotRunning)
       /\ (nextId' # nextId /\ ~isProcessing) => lastStarted' = nextId]_vars

\* the first operation was rejected, the two after it resolved, and the
\* queue is idle
C27_Witness ==
    /\ settled = <<"rejected", "resolved", "resolved">>
    /\ ~isProcessing /\ writeQueue = <<>> /\ file.json = "array"

\* C28: no refused disk operation takes the in-memory cache away from its
\* callers: the process that holds the table and the statistics is never
\* ended by a failure on the persistence path, so get, set, has, clear and
\* cleanup go on answering as they do on a healthy disk.
C28_MemoryOutlivesDisk == ~crashed

\* C29: every cache instance has a positive maxSize, a positive ttl and,
\* when persistence was asked for, a storage path and a persistence
\* coordinator; a construction with other parameters fails, so no instance
\* answers calls with them.
C29_InvalidConfigRejected ==
    /\ config.maxSize > 0
    /\ config.ttl > 0
    /\ config.persistent => HasPersistentCache

\* C37: in every state currentSize of the statistics is the number of
\* resident entries, the value size() returns.
C37_CurrentSizeIsSize == stats.currentSize = Len(cache)

\* C38: a cache with persistence holds at most maxSize entries, from its
\* construction on, whatever the snapshot it loaded.
C38_LoadRespectsMaxSize ==
    HasPersistentCache => Len(cache) <= config.maxSize

\* C34: the step that executes a save puts its entry into the pending
\* buffer; when a debounced write is already scheduled it leaves the timer
\* and its deadline as they are, and otherwise it schedules one for
\* BATCH_DELAY_MS later.
C34_SaveKeepsScheduledFlush ==
    [][Begins("save") =>
        /\ pendingWrites' = MapSet(pendingWrites, running'.op.key,
                                   running'.op.entry)
        /\ IF batchTimer.armed
           THEN batchTimer' = batchTimer
           ELSE batchTimer' = [due |-> now + BATCH_DELAY_MS,
                               armed |-> TRUE]]_vars

\* C35: an entry given to save is in the snapshot file at some later time
\* unless a later call has replaced or removed it, without any flush() and
\* however closely further saves follow.
C35_SavedIsEventuallyWritten ==
    \A k \in WriteKeys : \A v \in Values :
        (saved[k] = NewEntry(k, v, 0))
            ~> (InFile(file, NewEntry(k, v, 0)) \/ saved[k] # NewEntry(k, v, 0))

\* C36: every operation put on the queue is settled in the end; the list
\* of settlements only grows, by one outcome at a time, and never holds
\* more outcomes than operations were taken up; when the queue is empty and
\* nothing is executing the coordinator is not marked as processing.
C36_EveryOperationSettles ==
    /\ (writeQueue # <<>> \/ running # NotRunning)
           ~> (writeQueue = <<>> /\ running = NotRunning)
    /\ [][\/ settled' = settled
          \/ \E o \in {"resolved", "rejected"} : settled' = Append(settled, o)]_vars
    /\ [](/\ Len(settled) = lastStarted - (IF running = NotRunning THEN 0 ELSE 1)
          /\ lastStarted + Len(writeQueue) = nextId - 1)
    /\ []((writeQueue = <<>> /\ running = NotRunning) => ~isProcessing)

\* all the operations the callers issued have settled, one of them by a
\* rejection, and the coordinator is idle
C36_Witness ==
    /\ nextId = MaxWrites + 1 /\ Len(settled) = MaxWrites
    /\ \E i \in 1..Len(settled) : settled[i] = "rejected"
    /\ ~isProcessing /\ writeQueue = <<>>

\* C33: a refused disk write never ends the process; in a queued operation
\* it makes that operation's completion a rejection, and in flush() it
\* makes the completion of flush() a rejection.
C33_DiskFailureOnlyRejects ==
    [][/\ ~crashed'
       /\ (lastStarted' # lastStarted /\ diskFault
              /\ NeedsWrite(running'.op, file)) => running'.threw
       /\ (DebouncedWrite /\ diskFault /\ calls' = calls + 1)
              => ret'.val = "rejected"]_vars

Providers == {"anthropic", "openai", "auto"}
Formats == {"json", "csv", "yaml"}
TokenCounts == {499, 500, 1023, 1024, 2000}
MinCacheable == {500, 1024, 2000}
ToolNames == {<<"a">>, <<"a", ":">>}

\* what the constructor of CacheOptimizer fills in for an omitted field
DefaultCaching ==
    [enabled |-> TRUE, provider |-> "auto", cacheStaticPrompts |-> TRUE,
     minCacheableTokens |-> 1024]

CachingConfigs ==
    [enabled : BOOLEAN, provider : Providers, cacheStaticPrompts : BOOLEAN,
     minCacheableTokens : MinCacheable]

\* the text of createStaticPrefix without its two insertions has 670
\* characters; "json" and "yaml" have four, "csv" has three
StaticPrefixLength(toolName, format) ==
    670 + Len(toolName) + (IF format = "csv" THEN 3 ELSE 4)

createStaticPrefix(toolName, format) ==
    [tool |-> toolName, format |-> format,
     length |-> StaticPrefixLength(toolName, format)]

\* the empty string ''
EmptyPrefix == [tool |-> <<>>, format |-> "", length |-> 0]

\* getStrategy(provider), with process.env.ANTHROPIC_API_KEY as apiKey
getStrategy(provider, apiKey) ==
    IF provider = "auto"
    THEN IF apiKey THEN "anthropic" ELSE "openai"
    ELSE IF provider = "anthropic" THEN "anthropic" ELSE "openai"

\* strategy.shouldCache(content, tokens) of the two strategies
shouldCache(strategy, tokens) ==
    IF strategy = "anthropic" THEN tokens >= 1024 ELSE tokens >= 500

\* the structure both early returns of wrapWithCaching build
NotCached(format) ==
    [staticPrefix |-> EmptyPrefix, dynamicContent |-> <<"TOON", format>>,
     cacheBreakpoint |-> FALSE, provider |-> None]

\* CacheOptimizer.wrapWithCaching on the optimizer o: the returned structure
\* and the optimizer afterwards.  metrics.totalCacheableTokens grows by
\* staticPrefix.length / 4; the model counts it in quarters of a token.
wrapWithCaching(o, toolName, format, originalTokens, optimizedTokens) ==
    IF ~o.caching.enabled \/ ~o.caching.cacheStaticPrompts
    THEN [o |-> o, cached |-> NotCached(format)]
    ELSE IF ~shouldCache(getStrategy(o.caching.provider, o.apiKey),
                         optimizedTokens)
    THEN [o |-> o, cached |-> NotCached(format)]
    ELSE LET staticPrefix == createStaticPrefix(toolName, format)
         IN [o |-> [o EXCEPT !.totalCacheableTokens =
                                 @ + staticPrefix.length],
             cached |-> [staticPrefix |-> staticPrefix,
                         dynamicContent |-> <<"DATA", format>>,
                         cacheBreakpoint |-> TRUE,
                         provider |-> IF o.caching.provider = "auto"
                                      THEN IF o.apiKey THEN "anthropic"
                                           ELSE "openai"
                                      ELSE o.caching.provider]]

\* the last call made on the CacheOptimizer, its arguments and what it returned
Returned(op, toolName, tokens, cached) ==
    [op |-> op, toolName |-> toolName, optimizedTokens |-> tokens,
     cached |-> cached, totalCacheableTokens |-> 0]

\* a call of cacheOptimizer.wrapWithCaching(toon, toolName, format, .., tokens)
WrapWithCaching(toolName, format, tokens) ==
    /\ calls < MaxOps
    /\ calls' = calls + 1
    /\ LET r == wrapWithCaching(optimizer, toolName, format, tokens, tokens)
       IN optimizer' = [r.o EXCEPT !.returned =
                            Returned("wrapWithCaching", toolName, tokens,
                                     r.cached)]
    /\ UNCHANGED <<config, cache, stats, totalAccessCount, now, ret, written,
                   recency, pvars, fvars>>

\* a call of cacheOptimizer.getMetrics()
GetMetrics ==
    /\ calls < MaxOps
    /\ calls' = calls + 1
    /\ optimizer' = [optimizer EXCEPT !.returned =
                         [Returned("getMetrics", <<>>, 0, NotCached(""))
                          EXCEPT !.totalCacheableTokens =
                                     optimizer.totalCacheableTokens]]
    /\ UNCHANGED <<config, cache, stats, totalAccessCount, now, ret, written,
                   recency, pvars, fvars>>

\* new CacheOptimizer(caching) in a process with or without the API key
NewCacheOptimizer(caching, apiKey) ==
    [enabled |-> TRUE, caching |-> caching, apiKey |-> apiKey,
     totalCacheableTokens |-> 0,
     returned |-> Returned("new", <<>>, 0, NotCached(""))]

InitWrap ==
    /\ config = [enabled |-> TRUE, maxSize |-> MaxCap, ttl |-> TickMs,
                 persistent |-> FALSE, persistPath |-> DefaultPath]
    /\ InitTables
    /\ \E caching \in CachingConfigs, apiKey \in BOOLEAN :
           optimizer = NewCacheOptimizer(caching, apiKey)

NextWrap ==
    \/ \E toolName \in ToolNames, format \in Formats, tokens \in TokenCounts :
           WrapWithCaching(toolName, format, tokens)
    \/ GetMetrics

SpecWrap == InitWrap /\ [][NextWrap]_vars

(* C32: wrapWithCaching returns cacheBreakpoint = true with a non-empty    *)
(* static prefix exactly when caching is enabled, cacheStaticPrompts is on *)
(* and the optimized token count is at least the configured                *)
(* minCacheableTokens; otherwise it returns cacheBreakpoint = false with   *)
(* an empty static prefix.                                                 *)
C32_BreakpointAtConfiguredMinimum ==
    [][optimizer'.returned.op = "wrapWithCaching" /\ calls' = calls + 1 =>
         LET cached == optimizer'.returned.cached
             wanted == /\ optimizer.caching.enabled
                       /\ optimizer.caching.cacheStaticPrompts
                       /\ optimizer'.returned.optimizedTokens >=
                              optimizer.caching.minCacheableTokens
         IN /\ cached.cacheBreakpoint = wanted
            /\ cached.cacheBreakpoint => cached.staticPrefix.length > 0
            /\ ~cached.cacheBreakpoint => cached.staticPrefix = EmptyPrefix]_vars

(***************************************************************************)
(* The result cache of class TokenOptimizer                                *)
(*                                                                         *)
(* crypto's SHA-256 is replaced by a function that has the two properties  *)
(* the program relies on and no more: it is injective on the strings of    *)
(* the model (no collisions) and its result has 64 hexadecimal digits.     *)
(* It writes the character codes of the string in hexadecimal and fills    *)
(* up with zeros, which no character code contains.                        *)
(***************************************************************************)
MaxOptimize == 3

HexDigits == {"0", "1", "2", "3", "4", "5", "6", "7", "8", "9",
              "a", "b", "c", "d", "e", "f"}
DigestLength == 64

CharCode ==
    [c \in {"a", ":", "u", "n", "k", "o", "w"} |->
        CASE c = "a" -> <<"6", "1">>
          [] c = ":" -> <<"3", "a">>
          [] c = "u" -> <<"7", "5">>
          [] c = "n" -> <<"6", "e">>
          [] c = "k" -> <<"6", "b">>
          [] c = "o" -> <<"6", "f">>
          [] c = "w" -> <<"7", "7">>]

RECURSIVE HexOf(_)
HexOf(s) == IF s = <<>> THEN <<>> ELSE CharCode[Head(s)] \o HexOf(Tail(s))

\* crypto.createHash('sha256').update(content).digest('hex')
Sha256Hex(content) ==
    LET h == HexOf(content)
    IN h \o [i \in 1..(DigestLength - Len(h)) |-> "0"]

\* a fingerprint of the first two characters only
generateKey_ofPrefix(content) ==
    Sha256Hex(SubSeq(content, 1, IF Len(content) < 2 THEN Len(content) ELSE 2))

\* LRUCache.generateKey(content)
generateKey(content) == Sha256Hex(content)

\* the string 'unknown'
Unknown == <<"u", "n", "k", "n", "o", "w", "n">>

\* a call without metadata, without a toolName or with the empty one
NoToolName == <<>>

\* TokenOptimizer.generateCacheKey(content, metadata)
generateCacheKey(content, toolName) ==
    LET metadataKey == IF toolName = NoToolName THEN Unknown ELSE toolName
        combinedContent == metadataKey \o <<":">> \o content
    IN generateKey(combinedContent)

CallerTools == ToolNames \cup {NoToolName, Unknown}
Contents == {<<"a">>, <<":", "a">>}

\* What the libraries make of a content: whether yaml/JSON.parse find
\* structured data in it, and the token counts of the content and of its
\* TOON encoding.  They are functions of the content that the model leaves
\* open: one is chosen for each content when the optimizer is constructed.
\* The encoder is taken not to throw.
Analyses ==
    {[structured |-> FALSE, format |-> "json", originalTokens |-> 100,
      optimizedTokens |-> 100],
     [structured |-> TRUE, format |-> "json", originalTokens |-> 1000,
      optimizedTokens |-> 900],
     [structured |-> TRUE, format |-> "yaml", originalTokens |-> 2000,
      optimizedTokens |-> 600]}

MinSavingsThreshold == 30
MaxProcessingTime == 50

\* regex.test(toolName) for a pattern without special characters
RECURSIVE Occurs(_, _)
Occurs(pattern, s) ==
    /\ Len(pattern) <= Len(s)
    /\ \/ SubSeq(s, 1, Len(pattern)) = pattern
       \/ Occurs(pattern, Tail(s))

\* TokenOptimizer.shouldSkipTool(toolName)
shouldSkipTool(o, toolName) ==
    \E pattern \in o.skipToolPatterns : Occurs(pattern, toolName)

\* an OptimizationResult
Result(content, optimized, reason, a, cached) ==
    [optimized |-> optimized, originalContent |-> content,
     reason |-> reason, originalTokens |-> a.originalTokens,
     optimizedTokens |-> IF optimized THEN a.optimizedTokens ELSE 0,
     format |-> IF optimized THEN a.format ELSE "",
     cachedContent |-> cached]

\* new TokenOptimizer(config): the CacheOptimizer with the default caching
\* options and the history of the keys computed so far
NewTokenOptimizer(enabled, skipToolPatterns, analysis, apiKey) ==
    [enabled |-> enabled, skipToolPatterns |-> skipToolPatterns,
     analysis |-> analysis, caching |-> DefaultCaching, apiKey |-> apiKey,
     totalCacheableTokens |-> 0,
     returned |-> Returned("new", <<>>, 0, NotCached("")),
     result |-> Result(<<>>, FALSE, "new", [originalTokens |-> 0],
                       NotCached("")),
     request |-> [toolName |-> <<>>, content |-> <<>>],
     hit |-> FALSE, hashed |-> {}, addressed |-> {}]

\* LRUCache.generateKey(content) called by itself
GenerateKey(content) ==
    /\ calls < MaxOptimize
    /\ calls' = calls + 1
    /\ optimizer' = [optimizer EXCEPT
           !.hashed = @ \cup {[content |-> content,
                               key |-> generateKey(content)]}]
    /\ UNCHANGED <<config, cache, stats, totalAccessCount, now, ret, written,
                   recency, pvars, fvars>>

\* TokenOptimizer.optimize(content, {toolName}); elapsed is the time the
\* conversion takes when the call gets that far
Optimize(toolName, content, elapsed) ==
    /\ calls < MaxOptimize
    /\ calls' = calls + 1
    /\ LET cacheKey == generateCacheKey(content, toolName)
           named == IF toolName = NoToolName THEN Unknown ELSE toolName
           o == [optimizer EXCEPT
                    !.request = [toolName |-> toolName, content |-> content],
                    !.hashed = @ \cup
                        {[content |-> named \o <<":">> \o content,
                          key |-> cacheKey]},
                    !.addressed = @ \cup
                        {[toolName |-> toolName, content |-> content,
                          key |-> cacheKey]}]
           a == optimizer.analysis[content]
           \* this.resultCache.get(cacheKey)
           found == isEnabled /\ MapHas(cache, cacheKey)
           entry == MapGet(cache, cacheKey)
           live == found /\ ~isExpired(entry, now)
           touched == touchEntry(entry, now)
           total1 == IF ~found THEN totalAccessCount
                     ELSE IF live THEN totalAccessCount + 1
                     ELSE totalAccessCount - entry.accessCount
           c1 == IF ~found THEN cache
                 ELSE IF live THEN moveToEnd(cache, cacheKey, touched)
                 ELSE MapDelete(cache, cacheKey)
           st1 == IF ~isEnabled THEN stats
                  ELSE IF live
                  THEN updateStats([stats EXCEPT !.hits = @ + 1], c1, total1)
                  ELSE IF found
                  THEN updateStats([stats EXCEPT !.expirations = @ + 1,
                                                 !.misses = @ + 1],
                                   c1, total1)
                  ELSE updateStats([stats EXCEPT !.misses = @ + 1],
                                   c1, total1)
           Return(r, hit) ==
               /\ optimizer' = [o EXCEPT !.result = r, !.hit = hit]
               /\ cache' = c1
               /\ stats' = st1
               /\ totalAccessCount' = total1
               /\ elapsed = 0
               /\ now' = now
       IN IF live THEN Return(touched.value, TRUE)
          ELSE IF ~optimizer.enabled
          THEN Return(Result(content, FALSE, "Optimizer disabled", a,
                             NotCached("")), FALSE)
          ELSE IF toolName # NoToolName /\ shouldSkipTool(optimizer, toolName)
          THEN Return(Result(content, FALSE, "Tool in skip list", a,
                             NotCached("")), FALSE)
          ELSE IF ~a.structured
          THEN Return(Result(content, FALSE, "Not structured data", a,
                             NotCached("")), FALSE)
          ELSE IF (a.originalTokens - a.optimizedTokens) * 100
                      < MinSavingsThreshold * a.originalTokens
          THEN Return(Result(content, FALSE, "Savings too low", a,
                             NotCached("")), FALSE)
          ELSE IF elapsed > MaxProcessingTime
          THEN /\ optimizer' = [o EXCEPT
                      !.result = Result(content, FALSE, "Processing timeout",
                                        a, NotCached("")),
                      !.hit = FALSE]
               /\ cache' = c1
               /\ stats' = st1
               /\ totalAccessCount' = total1
               /\ now' = now + elapsed
          ELSE LET w == wrapWithCaching(o, named, a.format,
                                        a.originalTokens, a.optimizedTokens)
                   result == Result(content, TRUE, "", a, w.cached)
                   \* this.resultCache.set(cacheKey, result)
                   evict == isEnabled /\ needsEviction(c1, cacheKey)
                            /\ c1 # <<>>
                   c2 == IF evict THEN MapDelete(c1, c1[1].key) ELSE c1
                   total2 == IF evict THEN total1 - c1[1].accessCount
                             ELSE total1
                   c3 == IF isEnabled
                         THEN MapSet(c2, cacheKey,
                                     NewEntry(cacheKey, result, now + elapsed))
                         ELSE c2
               IN /\ optimizer' = [w.o EXCEPT !.result = result,
                                              !.hit = FALSE]
                  /\ cache' = c3
                  /\ stats' = IF ~isEnabled THEN st1
                              ELSE [st1 EXCEPT
                                       !.evictions =
                                           IF evict THEN @ + 1 ELSE @,
                                       !.currentSize = Len(c3)]
                  /\ totalAccessCount' = total2
                  /\ now' = now + elapsed
    /\ now + elapsed <= MaxTime
    /\ UNCHANGED <<config, ret, written, recency, pvars, fvars>>

InitOptimize ==
    /\ config \in [enabled : {TRUE}, maxSize : {1, MaxCap}, ttl : {TickMs},
                   persistent : {FALSE}, persistPath : {DefaultPath}]
    /\ InitTables
    /\ \E enabled \in BOOLEAN, skipToolPatterns \in {{}, {<<"a", ":">>}},
          analysis \in [Contents -> Analyses] :
           optimizer = NewTokenOptimizer(enabled, skipToolPatterns, analysis,
                                         FALSE)

NextOptimize ==
    \/ \E toolName \in CallerTools, content \in Contents,
          elapsed \in {0, TickMs} : Optimize(toolName, content, elapsed)
    \/ \E content \in Contents : GenerateKey(content)
    \/ Tick

SpecOptimize == InitOptimize /\ [][NextOptimize]_vars

\* the strings generateKey is given: contents, the empty string, and the
\* combined strings generateCacheKey builds
KeyInputs ==
    Contents \cup {<<>>} \cup
    {tool \o <<":">> \o content :
         tool \in ToolNames \cup {Unknown}, content \in Contents}

InitKey ==
    /\ config = [enabled |-> TRUE, maxSize |-> MaxCap, ttl |-> TickMs,
                 persistent |-> FALSE, persistPath |-> DefaultPath]
    /\ InitTables
    /\ optimizer = NewTokenOptimizer(TRUE, {},
                                     [c \in Contents |->
                                         [structured |-> FALSE,
                                          format |-> "json",
                                          originalTokens |-> 100,
                                          optimizedTokens |-> 100]],
                                     FALSE)

NextKey == \E content \in KeyInputs : GenerateKey(content)

SpecKey == InitKey /\ [][NextKey]_vars

IsHex(key) == \A i \in 1..Len(key) : key[i] \in HexDigits

C40_DifferentPairsDifferentKeys ==
    \A x, y \in optimizer.addressed :
        x.key = y.key => x.toolName = y.toolName /\ x.content = y.content

====
